---- MODULE Spec2Model ----
(***************************************************************************)
(* Model of the x402 demo: the requester-side TaskStore (task records and  *)
(* chunked-artifact reassembly) and the provider-side payment gate around  *)
(* the ADK tool loop.                                                      *)
(***************************************************************************)
EXTENDS Integers, Sequences, FiniteSets, TLC

\* ------------------------------------------------------------------ bounds
MaxEvents == 3          \* update_task calls in one behaviour
MaxRequests == 3        \* requests handled by the payment gate in one behaviour
MaxAccepts == 2         \* options in the list given to _enrich_accepts
MaxQuotes == 2          \* quotes in one answer of fee_quote
MaxRounds == 3          \* invocations of the reasoning engine in one tool loop
MaxCalls == 2           \* tool calls collected in one round
MaxContent == 1         \* intermediate content events in one tool loop
MaxSends == 3           \* send_message calls of the requester in one behaviour
MaxChunkEvents == 4     \* artifact events in one behaviour of the chunk protocol

\* ------------------------------------------------------------ value sets
TaskIds     == {"t1", "t2"}
NoId        == ""                      \* a falsy task_id (task_store.py:32,34)
UuidPool    == {"u1", "u2"}                  \* values str(uuid.uuid4()) may return
ContextIds  == {"c1"}
ArtifactIds == {"a1", "a2"}
TaskStates  == {"submitted", "working", "input_required", "completed", "failed"}
Terminal    == {"completed", "failed"}
LastChunk   == {"None", "True", "False"}   \* last_chunk: bool | None

VARIABLES
    tasks,      \* TaskStore._tasks : id -> Task
    chunks,     \* TaskStore._chunks : artifactId -> list of buffered Artifact
    nEvents,    \* number of update_task calls so far (also stamps objects)
    last,       \* the event of the latest update_task call
    pat,        \* monitor of an uninterrupted start/append*/final sequence
    started,    \* stamps of artifacts pushed on the buffer by a start event
    finalized,  \* stamps of buffered artifacts that received a final append
    repeated,   \* observation: the last event equals the one applied before it
    ret,        \* the Task the latest update_task call returned
    hist,       \* observation: the artifact events applied, in arrival order
    stask,      \* provider side: the task of the conversation
    sess,       \* provider side: the ADK session state
    gtrace,     \* provider side: calls made and statuses emitted, in order
    nReq,       \* provider side: number of requests handled
    enr,        \* one call of _enrich_accepts: its arguments and its result
    loop,       \* one run of the provider's tool loop (_run_to_completion)
    cl,         \* requester: tool_context.state and what send_message did
    ini         \* requester: ClientAgent's connection maps and the
                \* _init_connections callbacks in progress

storeVars == <<tasks, chunks, nEvents, last, pat, started, finalized, repeated,
              ret>>
gateVars == <<stask, sess, gtrace, nReq>>
vars == <<tasks, chunks, nEvents, last, pat, started, finalized, repeated,
          ret, hist, stask, sess, gtrace, nReq, enr, loop, cl, ini>>

\* What the actions of one component leave alone.
notStore == <<gateVars, enr, loop, cl, ini, hist>>
notGate == <<storeVars, enr, loop, cl, ini, hist>>
notEnrich == <<storeVars, gateVars, loop, cl, ini, hist>>
notLoop == <<storeVars, gateVars, enr, cl, ini, hist>>
notClient == <<storeVars, gateVars, enr, loop, ini, hist>>
notInit == <<storeVars, gateVars, enr, loop, cl, hist>>

\* ------------------------------------------------------------------ types
\* An Artifact object; oid is the identity of the Python object (the number
\* of the update_task call that delivered it). A Part is an opaque payload:
\* the one part of the k-th event is the pair <<"part", k>>.
PartsOf(k) == << <<"part", k>> >>

Artifact(aid, parts, oid) == [artifactId |-> aid, parts |-> parts, oid |-> oid]

Task(tid, state, arts, cid) ==
    [id |-> tid, status |-> state, artifacts |-> arts, contextId |-> cid]

StatusEvents ==
    [kind : {"status"}, task_id : TaskIds \cup {NoId}, context_id : ContextIds,
     status : TaskStates]

ArtifactEvents ==
    [kind : {"artifact"}, task_id : TaskIds \cup {NoId}, context_id : ContextIds,
     artifactId : ArtifactIds, append : BOOLEAN, last_chunk : LastChunk]

\* A raw Task returned by the remote: any status, no artifact or one.
NoArtifact == "none"

RawTaskEvents ==
    [kind : {"task"}, id : TaskIds, context_id : ContextIds, status : TaskStates,
     artifactId : ArtifactIds \cup {NoArtifact}]

NoEvent == [kind |-> "none"]

\* ret before the first call.
NoRecord == Task(NoId, "submitted", <<>>, NoId)

\* --------------------------------------------------------------- TaskStore
Stored(tid) == tid \in DOMAIN tasks

ArtifactsOf(tid) == IF Stored(tid) THEN tasks[tid].artifacts ELSE <<>>

\* str(uuid.uuid4()): an id no record is stored under.
FreshUuid == CHOOSE u \in UuidPool : ~Stored(u)

\* Variant: a new record starts in state working.
get_or_create_working(task_id, context_id) ==
    IF task_id # NoId /\ Stored(task_id)
    THEN tasks[task_id]
    ELSE Task(IF task_id # NoId THEN task_id ELSE FreshUuid,
              "working", <<>>, context_id)

\* Variant: the lookup never finds the record, a new one is made each time.
get_or_create_renew(task_id, context_id) ==
    Task(IF task_id # NoId /\ ~Stored(task_id) THEN task_id ELSE FreshUuid,
         "submitted", <<>>, context_id)

\* _get_or_create: the stored record, or a new one in state submitted.
get_or_create(task_id, context_id) ==
    IF task_id # NoId /\ Stored(task_id)
    THEN tasks[task_id]
    ELSE Task(IF task_id # NoId THEN task_id ELSE FreshUuid,
              "submitted", <<>>, context_id)

CanCreate(task_id) == task_id # NoId \/ \E u \in UuidPool : ~Stored(u)

\* Variant: the artifact is put in front of the list.
AppendArtifact_front(task, artifact) ==
    [task EXCEPT !.artifacts = <<artifact>> \o @]

\* Variant: the artifact replaces the list instead of extending it.
AppendArtifact_replace(task, artifact) ==
    [task EXCEPT !.artifacts = <<artifact>>]

\* (task.artifacts or []).append(a) if task.artifacts else setattr(..., [a])
AppendArtifact(task, artifact) ==
    [task EXCEPT !.artifacts = Append(@, artifact)]

\* Variant: an appended fragment is put in front of the buffered parts.
process_artifact_prepend(task, artifact, append, last_chunk, ch) ==
    LET aid == artifact.artifactId
    IN  IF ~append
        THEN IF last_chunk \in {"None", "True"}
             THEN [task |-> [task EXCEPT !.artifacts = Append(@, artifact)],
                   chunks |-> ch]
             ELSE [task |-> task,
                   chunks |-> [ch EXCEPT ![aid] = Append(@, artifact)]]
        ELSE IF ch[aid] = <<>>
             THEN [task |-> task, chunks |-> ch]
             ELSE LET n    == Len(ch[aid])
                      temp == [ch[aid][n] EXCEPT !.parts = artifact.parts \o @]
                  IN  IF last_chunk = "True"
                      THEN [task |-> [task EXCEPT !.artifacts = Append(@, temp)],
                            chunks |-> [ch EXCEPT ![aid] = SubSeq(@, 1, n - 1)]]
                      ELSE [task |-> task,
                            chunks |-> [ch EXCEPT ![aid][n] = temp]]

\* Variant: one buffer for all artifactIds: a continuation extends the
\* fragment started last, whatever its artifactId.
process_artifact_shared(task, artifact, append, last_chunk, ch) ==
    LET open == {a \in ArtifactIds : ch[a] # <<>>}
        aid  == IF append /\ open # {}
                THEN CHOOSE a \in open : \A b \in open :
                         ch[a][Len(ch[a])].oid >= ch[b][Len(ch[b])].oid
                ELSE artifact.artifactId
    IN  IF ~append
        THEN IF last_chunk \in {"None", "True"}
             THEN [task |-> [task EXCEPT !.artifacts = Append(@, artifact)],
                   chunks |-> ch]
             ELSE [task |-> task,
                   chunks |-> [ch EXCEPT ![aid] = Append(@, artifact)]]
        ELSE IF ch[aid] = <<>>
             THEN [task |-> task, chunks |-> ch]
             ELSE LET n    == Len(ch[aid])
                      temp == [ch[aid][n] EXCEPT !.parts = @ \o artifact.parts]
                  IN  IF last_chunk = "True"
                      THEN [task |-> [task EXCEPT !.artifacts = Append(@, temp)],
                            chunks |-> [ch EXCEPT ![aid] = SubSeq(@, 1, n - 1)]]
                      ELSE [task |-> task,
                            chunks |-> [ch EXCEPT ![aid][n] = temp]]

\* Variant: a continuation without a buffered fragment starts an artifact.
process_artifact_adopt(task, artifact, append, last_chunk, ch) ==
    LET aid == artifact.artifactId
    IN  IF ~append
        THEN IF last_chunk \in {"None", "True"}
             THEN [task |-> [task EXCEPT !.artifacts = Append(@, artifact)],
                   chunks |-> ch]
             ELSE [task |-> task,
                   chunks |-> [ch EXCEPT ![aid] = Append(@, artifact)]]
        ELSE IF ch[aid] = <<>>
             THEN IF last_chunk = "True"
                  THEN [task |-> [task EXCEPT !.artifacts = Append(@, artifact)],
                        chunks |-> ch]
                  ELSE [task |-> task,
                        chunks |-> [ch EXCEPT ![aid] = Append(@, artifact)]]
             ELSE LET n    == Len(ch[aid])
                      temp == [ch[aid][n] EXCEPT !.parts = @ \o artifact.parts]
                  IN  IF last_chunk = "True"
                      THEN [task |-> [task EXCEPT !.artifacts = Append(@, temp)],
                            chunks |-> [ch EXCEPT ![aid] = SubSeq(@, 1, n - 1)]]
                      ELSE [task |-> task,
                            chunks |-> [ch EXCEPT ![aid][n] = temp]]

\* Variant: a start fragment with lastChunk=false is also shown in the task.
process_artifact_leak(task, artifact, append, last_chunk, ch) ==
    LET aid == artifact.artifactId
    IN  IF ~append
        THEN IF last_chunk \in {"None", "True"}
             THEN [task |-> [task EXCEPT !.artifacts = Append(@, artifact)],
                   chunks |-> ch]
             ELSE [task |-> [task EXCEPT !.artifacts = Append(@, artifact)],
                   chunks |-> [ch EXCEPT ![aid] = Append(@, artifact)]]
        ELSE IF ch[aid] = <<>>
             THEN [task |-> task, chunks |-> ch]
             ELSE LET n    == Len(ch[aid])
                      temp == [ch[aid][n] EXCEPT !.parts = @ \o artifact.parts]
                  IN  IF last_chunk = "True"
                      THEN [task |-> [task EXCEPT !.artifacts = Append(@, temp)],
                            chunks |-> [ch EXCEPT ![aid] = SubSeq(@, 1, n - 1)]]
                      ELSE [task |-> task,
                            chunks |-> [ch EXCEPT ![aid][n] = temp]]

\* _process_artifact: the task and the buffer after the event.
process_artifact(task, artifact, append, last_chunk, ch) ==
    LET aid == artifact.artifactId
    IN  IF ~append
        THEN IF last_chunk \in {"None", "True"}
             THEN [task |-> AppendArtifact(task, artifact), chunks |-> ch]
             ELSE [task |-> task,
                   chunks |-> [ch EXCEPT ![aid] = Append(@, artifact)]]
        ELSE IF ch[aid] = <<>>
             THEN [task |-> task, chunks |-> ch]
             ELSE LET n    == Len(ch[aid])
                      temp == [ch[aid][n] EXCEPT !.parts = @ \o artifact.parts]
                  IN  IF last_chunk = "True"
                      THEN [task |-> AppendArtifact(task, temp),
                            chunks |-> [ch EXCEPT ![aid] = SubSeq(@, 1, n - 1)]]
                      ELSE [task |-> task,
                            chunks |-> [ch EXCEPT ![aid][n] = temp]]

\* self._tasks[task.id] = task
Install(task) ==
    [tid \in DOMAIN tasks \cup {task.id} |->
        IF tid = task.id THEN task ELSE tasks[tid]]

\* ---- monitor of the chunk sequence pattern (observation only)
Idle == [kind |-> "idle"]

PatNext(e) ==
    IF e.kind # "artifact" \/ e.task_id = NoId THEN Idle
    ELSE IF ~e.append
    THEN IF e.last_chunk = "False"
         THEN [kind |-> "open", x |-> e.artifactId, t |-> e.task_id,
               acc |-> PartsOf(nEvents + 1), base |-> ArtifactsOf(e.task_id), n |-> 1]
         ELSE Idle
    ELSE IF pat.kind = "open" /\ pat.x = e.artifactId /\ pat.t = e.task_id
    THEN [pat EXCEPT !.kind = IF e.last_chunk = "True" THEN "done" ELSE "open",
                     !.acc = @ \o PartsOf(nEvents + 1), !.n = @ + 1]
    ELSE Idle

\* update_task, TaskStatusUpdateEvent branch.
update_task_status(e) ==
    /\ nEvents < MaxEvents
    /\ e \in StatusEvents
    /\ CanCreate(e.task_id)
    /\ LET task == [get_or_create(e.task_id, e.context_id) EXCEPT !.status = e.status]
       IN  tasks' = Install(task) /\ ret' = task
    /\ nEvents' = nEvents + 1
    /\ last' = e
    /\ repeated' = (e = last)
    /\ pat' = PatNext(e)
    /\ UNCHANGED <<chunks, started, finalized>>
    /\ UNCHANGED notStore

\* update_task, TaskArtifactUpdateEvent branch: what the call does.
apply_artifact(e) ==
    /\ e \in ArtifactEvents
    /\ CanCreate(e.task_id)
    /\ LET artifact == Artifact(e.artifactId, PartsOf(nEvents + 1), nEvents + 1)
           r == process_artifact(get_or_create(e.task_id, e.context_id),
                                 artifact, e.append, e.last_chunk, chunks)
           top == chunks[e.artifactId][Len(chunks[e.artifactId])]
       IN  /\ tasks' = Install(r.task)
           /\ ret' = r.task
           /\ chunks' = r.chunks
           /\ started' = IF ~e.append /\ e.last_chunk = "False"
                         THEN started \cup {artifact.oid} ELSE started
           /\ finalized' = IF e.append /\ e.last_chunk = "True"
                              /\ chunks[e.artifactId] # <<>>
                           THEN finalized \cup {top.oid} ELSE finalized
    /\ nEvents' = nEvents + 1
    /\ last' = e
    /\ repeated' = (e = last)
    /\ pat' = PatNext(e)

update_task_artifact(e) ==
    /\ nEvents < MaxEvents
    /\ apply_artifact(e)
    /\ UNCHANGED notStore

\* The chunk protocol alone: artifact events for known task ids, with
\* lastChunk given; the events applied are recorded.
ChunkEvents ==
    [kind : {"artifact"}, task_id : TaskIds, context_id : ContextIds,
     artifactId : ArtifactIds, append : BOOLEAN, last_chunk : {"True", "False"}]

chunk_update(e) ==
    /\ nEvents < MaxChunkEvents
    /\ e \in ChunkEvents
    /\ apply_artifact(e)
    /\ hist' = Append(hist, e)
    /\ UNCHANGED <<gateVars, enr, loop, cl, ini>>

ChunkNext == \E e \in ChunkEvents : chunk_update(e)

\* Variant: a raw Task keeps the artifacts already stored for its id.
update_task_raw_keep(e) ==
    /\ nEvents < MaxEvents
    /\ e \in RawTaskEvents
    /\ LET arts == IF e.artifactId = NoArtifact THEN <<>>
                   ELSE <<Artifact(e.artifactId, PartsOf(nEvents + 1), nEvents + 1)>>
           task == Task(e.id, e.status, ArtifactsOf(e.id) \o arts, e.context_id)
       IN  tasks' = Install(task) /\ ret' = task
    /\ nEvents' = nEvents + 1
    /\ last' = e
    /\ repeated' = (e = last)
    /\ pat' = PatNext(e)
    /\ UNCHANGED <<chunks, started, finalized>>
    /\ UNCHANGED notStore

\* update_task, raw Task branch.
update_task_raw(e) ==
    /\ nEvents < MaxEvents
    /\ e \in RawTaskEvents
    /\ LET arts == IF e.artifactId = NoArtifact THEN <<>>
                   ELSE <<Artifact(e.artifactId, PartsOf(nEvents + 1), nEvents + 1)>>
           task == Task(e.id, e.status, arts, e.context_id)
       IN  tasks' = Install(task) /\ ret' = task
    /\ nEvents' = nEvents + 1
    /\ last' = e
    /\ repeated' = (e = last)
    /\ pat' = PatNext(e)
    /\ UNCHANGED <<chunks, started, finalized>>
    /\ UNCHANGED notStore

\* ============================================================ payment gate
\* ---- facilitator (external): what a call may answer
Failures    == {"error", "timeout"}
Reasons     == {"amount mismatch", "bad signature"}
Payloads    == {"sig1", "sig2"}
Fees        == {"feeA"}
NoFee       == "None"

Raised(exc) ==
    [raised |-> TRUE, exc |-> exc, ok |-> FALSE, reason |-> "None", tx |-> "None"]

\* VerifyResponse: ok is is_valid, reason is invalid_reason.
VerifyOutcomes ==
    {Raised(x) : x \in Failures}
    \cup {[raised |-> FALSE, exc |-> "None", ok |-> TRUE, reason |-> "None", tx |-> "None"]}
    \cup {[raised |-> FALSE, exc |-> "None", ok |-> FALSE, reason |-> r, tx |-> "None"]
            : r \in Reasons}

\* SettleResponse: ok is success, reason is error_reason, tx is transaction.
SettleOutcomes ==
    {Raised(x) : x \in Failures}
    \cup {[raised |-> FALSE, exc |-> "None", ok |-> TRUE, reason |-> "None", tx |-> "0xabc"]}
    \cup {[raised |-> FALSE, exc |-> "None", ok |-> FALSE, reason |-> "settle failed",
           tx |-> "None"]}

\* ---- requirements and fee quotes
Extra(name, version, fee) ==
    [none |-> FALSE, name |-> name, version |-> version, fee |-> fee]

NoExtra == [none |-> TRUE, name |-> "None", version |-> "None", fee |-> NoFee]

\* get_product_details_and_request_payment: the one accepted option.
MerchantRequirements ==
    [scheme |-> "exact_permit", network |-> "tron:nile", amount |-> "100",
     asset |-> "USDT", payTo |-> "merchant", maxTimeoutSeconds |-> 1200,
     extra |-> Extra("USDT", "1", NoFee)]

MerchantAccepts == <<MerchantRequirements>>

Quote(network, scheme, asset, fee) ==
    [network |-> network, scheme |-> scheme, asset |-> asset, fee |-> fee]

\* Answers of fee_quote for the merchant's option: a failure, no quote, a quote
\* for its key, a quote for another asset.
QuoteOutcomes ==
    {[raised |-> TRUE, exc |-> x, quotes |-> <<>>] : x \in Failures}
    \cup {[raised |-> FALSE, exc |-> "None", quotes |-> q] :
            q \in {<<>>} \cup UNION {
                   {<<Quote("tron:nile", "exact_permit", "USDT", f)>>,
                    <<Quote("tron:nile", "exact_permit", "TRX", f)>>} : f \in Fees}}

Key(r) == <<r.network, r.scheme, r.asset>>

\* Variant: the first quote of a key wins.
FeeMapGet_first(quotes, key) ==
    LET hits == {i \in 1..Len(quotes) : Key(quotes[i]) = key}
    IN  IF hits = {} THEN NoFee
        ELSE quotes[CHOOSE i \in hits : \A j \in hits : i <= j].fee

\* fee_map.get(key): the fee of the last quote with that key, None without one.
FeeMapGet(quotes, key) ==
    LET hits == {i \in 1..Len(quotes) : Key(quotes[i]) = key}
    IN  IF hits = {} THEN NoFee
        ELSE quotes[CHOOSE i \in hits : \A j \in hits : j <= i].fee

\* Variant: a failed fee quote aborts the challenge.
enrich_accepts_failclosed(accepts, out) ==
    IF out.raised
    THEN [raised |-> TRUE, accepts |-> <<>>]
    ELSE [raised |-> FALSE,
          accepts |-> [i \in 1..Len(accepts) |->
              LET req == accepts[i]
                  fee == FeeMapGet(out.quotes, Key(req))
              IN  IF fee # NoFee
                  THEN LET extra == IF req.extra.none
                                    THEN Extra("None", "None", NoFee)
                                    ELSE req.extra
                       IN  [req EXCEPT !.extra = Extra(extra.name, extra.version, fee)]
                  ELSE req]]

\* Variant: the enriched extra is built from the fee alone.
enrich_accepts_rebuild(accepts, out) ==
    IF out.raised
    THEN [raised |-> FALSE, accepts |-> accepts]
    ELSE [raised |-> FALSE,
          accepts |-> [i \in 1..Len(accepts) |->
              LET req == accepts[i]
                  fee == FeeMapGet(out.quotes, Key(req))
              IN  IF fee # NoFee
                  THEN [req EXCEPT !.extra = Extra("None", "None", fee)]
                  ELSE req]]

\* _enrich_accepts: out is the answer of self._facilitator.fee_quote(accepts).
enrich_accepts(accepts, out) ==
    IF out.raised
    THEN [raised |-> FALSE, accepts |-> accepts]
    ELSE [raised |-> FALSE,
          accepts |-> [i \in 1..Len(accepts) |->
              LET req == accepts[i]
                  fee == FeeMapGet(out.quotes, Key(req))
              IN  IF fee # NoFee
                  THEN LET extra == IF req.extra.none
                                    THEN Extra("None", "None", NoFee)
                                    ELSE req.extra
                       IN  [req EXCEPT !.extra = Extra(extra.name, extra.version, fee)]
                  ELSE req]]

\* Variant: an unreachable facilitator counts as a positive answer.
verify_payment_assume_valid(payload, requirements, resp) ==
    IF resp.raised
    THEN [raised |-> FALSE, exc |-> "None", ok |-> TRUE, reason |-> "None", tx |-> "None"]
    ELSE resp

\* verify_payment: resp is the answer of self._facilitator.verify(payload,
\* requirements); it is returned as it is, an exception propagates.
verify_payment(payload, requirements, resp) == resp

\* settle_payment: resp is the answer of self._facilitator.settle(payload,
\* requirements); it is returned as it is, an exception propagates.
settle_payment(payload, requirements, resp) == resp

\* ---- business executor (ADKAgentExecutor around the merchant agent)
\* What one run of _run_to_completion ends with: a final response (complete),
\* the payment-needed signal of the merchant tool, or another exception; and
\* whether a working status was emitted on the way.
RunOutcomes ==
    [kind : {"final", "payment_needed", "error"}, working : BOOLEAN, parts : BOOLEAN]

\* before_agent_callback: consume the marker of the session state.
before_agent_callback(state) ==
    IF ~state.payment_verified_data
    THEN [state |-> state, injected |-> FALSE]
    ELSE [state |-> [state EXCEPT !.payment_verified_data = FALSE],
          injected |-> TRUE]

\* Variant: the verified branch is taken whatever the task metadata holds.
payment_verified_always(task) == TRUE

\* context.current_task and context.current_task.metadata.get("x402_payment_verified")
payment_verified(task) == task.exists /\ task.verified

\* ADKAgentExecutor.execute: the session after the run, whether the verified
\* branch was taken, whether the agent run got the injected payment result,
\* and how the run ended.
adk_execute(task, state, out) ==
    IF task.exists /\ ~task.hasMeta
    THEN [flag |-> FALSE, injected |-> FALSE, state |-> state,
          result |-> "attribute_error", working |-> FALSE, parts |-> FALSE]
    ELSE LET flag == payment_verified(task)
             s1   == IF flag THEN [state EXCEPT !.payment_verified_data = TRUE]
                     ELSE state
             cb   == before_agent_callback(s1)
         IN  [flag |-> flag, injected |-> cb.injected, state |-> cb.state,
              result |-> out.kind, working |-> out.working, parts |-> out.parts]

\* ---- x402ServerExecutor (the gate around the business executor)
NoTask ==
    [exists |-> FALSE, state |-> "none", hasMeta |-> FALSE, verified |-> FALSE,
     reqs |-> <<>>, payStatus |-> "none", message |-> "", nArtifacts |-> 0]

StatusEntry(task) ==
    [op |-> "status", req |-> nReq + 1, state |-> task.state,
     message |-> task.message, reqs |-> task.reqs]

DelegateEntry(r) ==
    [op |-> "delegate", req |-> nReq + 1, flag |-> r.flag,
     injected |-> r.injected, result |-> r.result]

Fail(task, reason) ==
    [task EXCEPT !.state = "failed", !.message = reason, !.payStatus = "payment-failed"]

\* Steps 1, 2 and 4 of the gate: run the wrapped executor on `task`; a
\* payment-needed signal becomes a challenge (input_required), anything else
\* passes through. The task afterwards and the trace entries made.
RunWrapped(task, out, fq) ==
    LET r  == adk_execute(task, sess, out)
        t1 == IF r.result = "attribute_error" THEN task
              ELSE [task EXCEPT !.exists = TRUE,
                                !.state = IF r.working THEN "working"
                                          ELSE IF task.exists THEN task.state
                                          ELSE "submitted"]
    IN  CASE r.result = "final" ->
               LET t2 == [t1 EXCEPT !.state = "completed",
                                    !.nArtifacts = IF r.parts THEN @ + 1 ELSE @]
               IN  [task |-> t2, state |-> r.state,
                    entries |-> <<DelegateEntry(r), StatusEntry(t2)>>]
          [] r.result = "payment_needed" ->
               LET en == enrich_accepts(MerchantAccepts, fq)
                   qe == [op |-> "fee_quote", req |-> nReq + 1, fac |-> fq,
                          accepts |-> MerchantAccepts, ret |-> en]
                   t2 == [t1 EXCEPT !.state = "input_required", !.hasMeta = TRUE,
                                    !.reqs = en.accepts,
                                    !.payStatus = "payment-required",
                                    !.message = "payment required"]
               IN  IF en.raised
                   THEN [task |-> t1, state |-> r.state,
                         entries |-> <<DelegateEntry(r), qe>>]
                   ELSE [task |-> t2, state |-> r.state,
                         entries |-> <<DelegateEntry(r), qe, StatusEntry(t2)>>]
          [] OTHER ->
               [task |-> t1, state |-> r.state, entries |-> <<DelegateEntry(r)>>]

\* A request without a signed payload.
gate_execute(out, fq) ==
    /\ nReq < MaxRequests
    /\ out \in RunOutcomes /\ fq \in QuoteOutcomes
    /\ out.kind = "final" \/ ~out.parts
    /\ out.kind = "payment_needed" \/ fq = [raised |-> FALSE, exc |-> "None", quotes |-> <<>>]
    /\ LET w == RunWrapped(stask, out, fq)
       IN  /\ stask' = w.task
           /\ sess' = w.state
           /\ gtrace' = gtrace \o w.entries
    /\ nReq' = nReq + 1
    /\ UNCHANGED notGate

\* Variant: settlement is attempted although verification did not pass.
gate_execute_paid_invalid_settles(payload, v) ==
    /\ nReq < MaxRequests
    /\ stask.state = "input_required"
    /\ payload \in Payloads /\ v \in VerifyOutcomes
    /\ LET requirements == stask.reqs[1]
           vr == v
           ve == [op |-> "verify", req |-> nReq + 1, payload |-> payload,
                  requirements |-> requirements, fac |-> v, ret |-> vr]
           se == [op |-> "settle", req |-> nReq + 1, payload |-> payload,
                  requirements |-> requirements, fac |-> Raised("error"),
                  ret |-> Raised("error")]
           t  == [stask EXCEPT !.state = "failed", !.message = "error",
                               !.payStatus = "payment-failed"]
       IN  /\ vr.raised \/ ~vr.ok
           /\ stask' = t
           /\ gtrace' = gtrace \o <<ve, se, [op |-> "status", req |-> nReq + 1,
                                            state |-> t.state, message |-> t.message,
                                            reqs |-> t.reqs]>>
    /\ nReq' = nReq + 1
    /\ UNCHANGED <<sess>>
    /\ UNCHANGED notGate

\* A follow-up request whose metadata carries a signed payload: verify, and
\* stop with failed when it is not valid.
gate_execute_paid_invalid(payload, v) ==
    /\ nReq < MaxRequests
    /\ stask.state = "input_required"
    /\ payload \in Payloads /\ v \in VerifyOutcomes
    /\ LET requirements == stask.reqs[1]
           vr == verify_payment(payload, requirements, v)
           ve == [op |-> "verify", req |-> nReq + 1, payload |-> payload,
                  requirements |-> requirements, fac |-> v, ret |-> vr]
           t  == Fail(stask, IF vr.raised THEN vr.exc ELSE vr.reason)
       IN  /\ vr.raised \/ ~vr.ok
           /\ stask' = t
           /\ gtrace' = gtrace \o <<ve, StatusEntry(t)>>
    /\ nReq' = nReq + 1
    /\ UNCHANGED <<sess>>
    /\ UNCHANGED notGate

\* A follow-up request whose metadata carries a signed payload that verifies:
\* settle; on success mark the task verified and run the wrapped executor
\* again, else stop with failed.
gate_execute_paid_valid(payload, v, s, out, fq) ==
    /\ nReq < MaxRequests
    /\ stask.state = "input_required"
    /\ payload \in Payloads /\ v \in VerifyOutcomes /\ s \in SettleOutcomes
    /\ out \in RunOutcomes /\ fq \in QuoteOutcomes
    /\ out.kind = "final" \/ ~out.parts
    /\ out.kind = "payment_needed" \/ fq = [raised |-> FALSE, exc |-> "None", quotes |-> <<>>]
    /\ LET requirements == stask.reqs[1]
           vr == verify_payment(payload, requirements, v)
           ve == [op |-> "verify", req |-> nReq + 1, payload |-> payload,
                  requirements |-> requirements, fac |-> v, ret |-> vr]
           sr == settle_payment(payload, requirements, s)
           se == [op |-> "settle", req |-> nReq + 1, payload |-> payload,
                  requirements |-> requirements, fac |-> s, ret |-> sr]
       IN  /\ ~vr.raised /\ vr.ok
           /\ IF sr.raised \/ ~sr.ok
              THEN LET t == Fail(stask, IF sr.raised THEN sr.exc ELSE sr.reason)
                   IN  /\ out = [kind |-> "final", working |-> FALSE, parts |-> FALSE]
                       /\ stask' = t
                       /\ sess' = sess
                       /\ gtrace' = gtrace \o <<ve, se, StatusEntry(t)>>
              ELSE LET t == [stask EXCEPT !.verified = TRUE, !.state = "working",
                                          !.payStatus = "payment-completed"]
                       w == RunWrapped(t, out, fq)
                   IN  /\ stask' = w.task
                       /\ sess' = w.state
                       /\ gtrace' = gtrace \o <<ve, se>> \o w.entries
    /\ nReq' = nReq + 1
    /\ UNCHANGED notGate

GateInit ==
    /\ stask = NoTask
    /\ sess = [payment_verified_data |-> FALSE]
    /\ gtrace = <<>>
    /\ nReq = 0

GateNext ==
    \/ \E out \in RunOutcomes, fq \in QuoteOutcomes : gate_execute(out, fq)
    \/ \E payload \in Payloads, v \in VerifyOutcomes :
          gate_execute_paid_invalid(payload, v)
    \/ \E payload \in Payloads, v \in VerifyOutcomes, s \in SettleOutcomes,
          out \in RunOutcomes, fq \in QuoteOutcomes :
          gate_execute_paid_valid(payload, v, s, out, fq)


\* ========================================================= _enrich_accepts
RECURSIVE SeqsUpTo(_, _)
SeqsUpTo(S, n) ==
    IF n = 0 THEN {<<>>}
    ELSE LET shorter == SeqsUpTo(S, n - 1)
         IN  shorter \cup
             {Append(q, x) : q \in {r \in shorter : Len(r) = n - 1}, x \in S}

\* Options a merchant may accept: two assets; no extra, an extra without fee,
\* an extra that already carries a fee.
EnRequirements ==
    {[MerchantRequirements EXCEPT !.asset = a, !.extra = x] :
        a \in {"USDT", "TRX"},
        x \in {NoExtra, Extra("USDT", "1", NoFee), Extra("USDT", "1", "feeOld")}}

EnQuotes ==
    {Quote("tron:nile", "exact_permit", a, f) : a \in {"USDT", "TRX"},
                                                 f \in {"feeA", "feeB"}}
    \cup {Quote("tron:mainnet", "exact_permit", "USDT", "feeA")}

EnQuoteOutcomes ==
    {[raised |-> TRUE, exc |-> x, quotes |-> <<>>] : x \in Failures}
    \cup {[raised |-> FALSE, exc |-> "None", quotes |-> q] :
            q \in SeqsUpTo(EnQuotes, MaxQuotes)}

EnNotRun == [done |-> FALSE, raised |-> FALSE, accepts |-> <<>>]

EnIdle == [accepts |-> <<>>, out |-> [raised |-> FALSE, exc |-> "None", quotes |-> <<>>],
           result |-> EnNotRun]

\* One call of _enrich_accepts(enr.accepts) in which fee_quote answers enr.out.
enrich_call ==
    /\ ~enr.result.done
    /\ LET r == enrich_accepts(enr.accepts, enr.out)
       IN  enr' = [enr EXCEPT !.result =
                     [done |-> TRUE, raised |-> r.raised, accepts |-> r.accepts]]
    /\ UNCHANGED notEnrich

EnrichNext == enrich_call

\* ============================================================== tool loop
\* What a function call requested by the reasoning engine does when executed:
\* the tool returns, the tool raises some Exception, the tool raises
\* x402PaymentRequiredException, or no tool of that name is registered.
CallKinds == {"ok", "fail", "pay", "unknown"}

FunctionResponse(i, kind) ==
    [call |-> i, response |-> IF kind = "ok" THEN "result" ELSE "error"]

\* Variant: any exception of a tool leaves _exec_tools.
RECURSIVE exec_tools_from_reraise(_, _, _, _)
exec_tools_from_reraise(calls, i, results, executed) ==
    IF i > Len(calls)
    THEN [exc |-> "None", results |-> results, executed |-> executed]
    ELSE CASE calls[i] = "unknown" ->
                [exc |-> "ValueError", results |-> results, executed |-> executed]
           [] calls[i] = "ok" ->
                exec_tools_from_reraise(calls, i + 1,
                    Append(results, FunctionResponse(i, "ok")), Append(executed, i))
           [] calls[i] = "pay" ->
                [exc |-> "x402PaymentRequiredException", results |-> results,
                 executed |-> Append(executed, i)]
           [] OTHER ->
                [exc |-> "Exception", results |-> results,
                 executed |-> Append(executed, i)]

\* Variant: a payment-needed signal skips the call and the batch goes on.
RECURSIVE exec_tools_from_swallow(_, _, _, _)
exec_tools_from_swallow(calls, i, results, executed) ==
    IF i > Len(calls)
    THEN [exc |-> "None", results |-> results, executed |-> executed]
    ELSE CASE calls[i] = "unknown" ->
                [exc |-> "ValueError", results |-> results, executed |-> executed]
           [] calls[i] = "ok" ->
                exec_tools_from_swallow(calls, i + 1,
                    Append(results, FunctionResponse(i, "ok")), Append(executed, i))
           [] OTHER ->
                exec_tools_from_swallow(calls, i + 1,
                    Append(results, FunctionResponse(i, "fail")), Append(executed, i))

\* The for loop of _exec_tools from call i on: the exception that leaves it
\* ("None" when it returns), the results so far, the calls whose tool ran.
RECURSIVE exec_tools_from(_, _, _, _)
exec_tools_from(calls, i, results, executed) ==
    IF i > Len(calls)
    THEN [exc |-> "None", results |-> results, executed |-> executed]
    ELSE CASE calls[i] = "unknown" ->
                [exc |-> "ValueError", results |-> results, executed |-> executed]
           [] calls[i] = "ok" ->
                exec_tools_from(calls, i + 1,
                    Append(results, FunctionResponse(i, "ok")), Append(executed, i))
           [] calls[i] = "pay" ->
                [exc |-> "x402PaymentRequiredException", results |-> results,
                 executed |-> Append(executed, i)]
           [] OTHER ->
                exec_tools_from(calls, i + 1,
                    Append(results, FunctionResponse(i, "fail")), Append(executed, i))

exec_tools(calls) == exec_tools_from(calls, 1, <<>>, <<>>)

UserMessage == <<"message">>

\* pc: where _run_to_completion is; current: the content given to the engine
\* in this round; runs: every content given to the engine, in order;
\* batches: every batch handed to _exec_tools with what it did; emitted: the
\* calls made on the task updater; exc: the exception that left the loop;
\* cancelExc: the exception of the last cancel(); end: how the loop returned
\* ("final_content", "final_empty": a final response with or without parts,
\* "exhausted": a round without calls ended).
LoopIdle ==
    [pc |-> "idle", round |-> 0, calls |-> <<>>, current |-> <<>>,
     runs |-> <<>>, batches |-> <<>>, emitted |-> <<>>, nContent |-> 0,
     exc |-> "None", cancelExc |-> "None", end |-> "none"]

\* executor.py:53-57: the first round, the engine is given the message.
run_to_completion ==
    /\ loop.pc = "idle"
    /\ loop' = [loop EXCEPT !.pc = "stream", !.round = 1,
                            !.current = UserMessage, !.runs = <<UserMessage>>]
    /\ UNCHANGED notLoop

\* Variant: the loop goes on reading the stream after a final response.
stream_final_continue(parts) ==
    /\ loop.pc = "stream"
    /\ Len(loop.emitted) < MaxContent + 4
    /\ loop' = [loop EXCEPT
                  !.end = IF parts THEN "final_content" ELSE "final_empty",
                  !.emitted = @ \o (IF parts THEN <<"artifact">> ELSE <<>>)
                                \o <<"completed">>]
    /\ UNCHANGED notLoop

\* executor.py:58-63: the engine's final response.
stream_final(parts) ==
    /\ loop.pc = "stream"
    /\ loop' = [loop EXCEPT !.pc = "done",
                  !.end = IF parts THEN "final_content" ELSE "final_empty",
                  !.emitted = @ \o (IF parts THEN <<"artifact">> ELSE <<>>)
                                \o <<"completed">>]
    /\ UNCHANGED notLoop

\* executor.py:65-66: an event that requests a function call.
stream_function_call(kind) ==
    /\ loop.pc = "stream"
    /\ loop.round < MaxRounds
    /\ Len(loop.calls) < MaxCalls
    /\ loop' = [loop EXCEPT !.calls = Append(@, kind)]
    /\ UNCHANGED notLoop

\* executor.py:67-71: an event with content: a working status update.
stream_content ==
    /\ loop.pc = "stream"
    /\ loop.nContent < MaxContent
    /\ loop' = [loop EXCEPT !.emitted = Append(@, "working"), !.nContent = @ + 1]
    /\ UNCHANGED notLoop

\* Variant: a round without calls asks the engine again.
stream_end_retry ==
    /\ loop.pc = "stream"
    /\ IF loop.calls = <<>>
       THEN IF loop.round < MaxRounds
            THEN loop' = [loop EXCEPT !.round = @ + 1,
                                      !.runs = Append(@, loop.current)]
            ELSE loop' = [loop EXCEPT !.pc = "done", !.end = "exhausted",
                                      !.emitted = Append(@, "completed")]
       ELSE LET r == exec_tools(loop.calls)
                b == [round |-> loop.round, calls |-> loop.calls,
                      executed |-> r.executed, results |-> r.results,
                      exc |-> r.exc]
            IN  IF r.exc # "None"
                THEN loop' = [loop EXCEPT !.pc = "raised", !.exc = r.exc,
                                          !.batches = Append(@, b)]
                ELSE loop' = [loop EXCEPT !.round = @ + 1, !.calls = <<>>,
                                          !.current = r.results,
                                          !.runs = Append(@, r.results),
                                          !.batches = Append(@, b)]
    /\ UNCHANGED notLoop

\* executor.py:73-78: the stream of the round ends without a final response.
stream_end ==
    /\ loop.pc = "stream"
    /\ IF loop.calls = <<>>
       THEN loop' = [loop EXCEPT !.pc = "done", !.end = "exhausted",
                                 !.emitted = Append(@, "completed")]
       ELSE LET r == exec_tools(loop.calls)
                b == [round |-> loop.round, calls |-> loop.calls,
                      executed |-> r.executed, results |-> r.results,
                      exc |-> r.exc]
            IN  IF r.exc # "None"
                THEN loop' = [loop EXCEPT !.pc = "raised", !.exc = r.exc,
                                          !.batches = Append(@, b)]
                ELSE loop' = [loop EXCEPT !.round = @ + 1, !.calls = <<>>,
                                          !.current = r.results,
                                          !.runs = Append(@, r.results),
                                          !.batches = Append(@, b)]
    /\ UNCHANGED notLoop

\* Variant: cancel makes a best-effort abort.
cancel_abort ==
    /\ loop' = [loop EXCEPT !.cancelExc = "UnsupportedOperationError",
                            !.pc = "done", !.emitted = Append(@, "canceled")]
    /\ UNCHANGED notLoop

\* executor.py:44-45: cancel raises ServerError(UnsupportedOperationError()).
cancel ==
    /\ loop' = [loop EXCEPT !.cancelExc = "UnsupportedOperationError"]
    /\ UNCHANGED notLoop

LoopNext ==
    \/ run_to_completion
    \/ \E parts \in BOOLEAN : stream_final(parts)
    \/ \E kind \in CallKinds : stream_function_call(kind)
    \/ stream_content
    \/ stream_end
    \/ cancel

\* ============================================================== requester
Connections == {"merchant"}
AgentNames == {"merchant", "nobody"}
Messages == {"buy", "sign_and_send_payment"}

\* What x402.get_payment_requirements finds in a task: nothing, a challenge
\* with an empty accepts list, a challenge with options.
ReqsKinds == {"none", "empty", "ok"}

NoPurchase == [has |-> FALSE, id |-> NoId, reqs |-> "none"]

\* What RemoteAgentConnection.send_message returns: a JSONRPCError, a
\* Message, or the Task.
Responses ==
    {[kind |-> "error", id |-> NoId, state |-> "none", reqs |-> "none"],
     [kind |-> "message", id |-> NoId, state |-> "none", reqs |-> "none"]}
    \cup {[kind |-> "task", id |-> i, state |-> "input_required", reqs |-> r] :
            i \in TaskIds, r \in ReqsKinds}
    \cup {[kind |-> "task", id |-> i, state |-> st, reqs |-> "none"] :
            i \in TaskIds, st \in {"working", "completed", "failed"}}

SignOutcomes == {"signed", "SignError"}

Returned(v) == [kind |-> "return", value |-> v]
Raises(v) == [kind |-> "raise", value |-> v]

\* challenged and closed are history: whether a response in state
\* input_required was stored since the last payload went out, and the ids of
\* the tasks that came back completed or failed.
ClientIdle ==
    [purchase_task |-> NoPurchase, context_id |-> "None", signed |-> <<>>,
     sent |-> <<>>, nCalls |-> 0, challenged |-> FALSE, closed |-> {},
     call |-> [agent |-> "", message |-> ""],
     result |-> [kind |-> "none", value |-> ""]]

\* Variant: the wallet signs whatever the state holds.
sign_payment_unchecked(state, w) ==
    IF w = "SignError"
    THEN [raised |-> TRUE, exc |-> "SignError",
          signed |-> <<state.purchase_task>>,
          task_id |-> NoId, payload |-> FALSE, message |-> ""]
    ELSE [raised |-> FALSE, exc |-> "None",
          signed |-> <<state.purchase_task>>,
          task_id |-> state.purchase_task.id, payload |-> TRUE,
          message |-> "send_signed_payment_payload"]

\* _sign_payment(state), the wallet answering w: the exception raised or the
\* (task id, metadata, message) returned, and the requirements the wallet
\* was asked to sign.
sign_payment(state, w) ==
    IF ~state.purchase_task.has
    THEN [raised |-> TRUE, exc |-> "ValueError: No purchase_task in state.",
          signed |-> <<>>, task_id |-> NoId, payload |-> FALSE, message |-> ""]
    ELSE IF state.purchase_task.reqs = "none"
    THEN [raised |-> TRUE, exc |-> "ValueError: No payment requirements found.",
          signed |-> <<>>, task_id |-> NoId, payload |-> FALSE, message |-> ""]
    ELSE IF w = "SignError"
    THEN [raised |-> TRUE, exc |-> "SignError",
          signed |-> <<state.purchase_task>>,
          task_id |-> NoId, payload |-> FALSE, message |-> ""]
    ELSE [raised |-> FALSE, exc |-> "None",
          signed |-> <<state.purchase_task>>,
          task_id |-> state.purchase_task.id, payload |-> TRUE,
          message |-> "send_signed_payment_payload"]

\* _handle_response(resp, agent_name, state): the state afterwards and the
\* string returned or the exception raised.
handle_response(resp, state) ==
    IF resp.state = "input_required"
    THEN LET st == [state EXCEPT !.purchase_task =
                       [has |-> TRUE, id |-> resp.id, reqs |-> resp.reqs],
                                 !.challenged = TRUE]
         IN  IF resp.reqs \in {"none", "empty"}
             THEN [state |-> st,
                   result |-> Raises("ValueError: No valid payment options.")]
             ELSE [state |-> st, result |-> Returned("Approve?")]
    ELSE IF resp.state \in {"completed", "failed"}
    THEN [state |-> [state EXCEPT !.closed = @ \cup {resp.id}],
          result |-> Returned("result")]
    ELSE [state |-> state, result |-> Returned("state")]

\* send_message(agent_name, message, tool_context); the wallet would answer
\* w and the remote agent resp.
send_message(agent_name, message, w, resp) ==
    /\ cl.nCalls < MaxSends
    /\ LET c0 == [cl EXCEPT !.nCalls = @ + 1,
                            !.call = [agent |-> agent_name, message |-> message]]
           sp == IF message = "sign_and_send_payment"
                 THEN sign_payment(c0, w)
                 ELSE [raised |-> FALSE, exc |-> "None", signed |-> <<>>,
                       task_id |-> NoId, payload |-> FALSE, message |-> message]
           c1 == [c0 EXCEPT !.signed = @ \o sp.signed]
           c2 == [c1 EXCEPT !.sent = Append(@,
                      [text |-> sp.message, taskId |-> sp.task_id,
                       payload |-> sp.payload, contextId |-> c1.context_id]),
                            !.challenged = @ /\ ~sp.payload]
           c3 == [c2 EXCEPT !.context_id = "c1"]
       IN  IF agent_name \notin Connections
           THEN cl' = [c0 EXCEPT !.result = Raises("ValueError: Agent not found.")]
           ELSE IF sp.raised
           THEN cl' = [c1 EXCEPT !.result = Raises(sp.exc)]
           ELSE IF resp.kind = "error"
           THEN cl' = [c2 EXCEPT !.result = Returned("error")]
           ELSE IF resp.kind = "message"
           THEN cl' = [c3 EXCEPT !.result = Raises("AttributeError")]
           ELSE LET h == handle_response(resp, c3)
                IN  cl' = [h.state EXCEPT !.result = h.result]
    /\ UNCHANGED notClient

ClientNext ==
    \E agent_name \in AgentNames, message \in Messages,
       w \in SignOutcomes, resp \in Responses :
        send_message(agent_name, message, w, resp)


\* ------------------------------------------- requester: _init_connections
\* before_agent_callback of the one root agent: every agent run calls it, and
\* runs of different sessions share the ClientAgent and the event loop, so a
\* callback suspended in its await lets another one start.
MaxCallbacks == 3
MaxAddresses == 2
Callbacks == 1..MaxCallbacks
\* remote_agent_addresses; the card found at address a is named a.
Addresses == [a \in 1..MaxAddresses |-> a]
\* What awaiting get_agent_card() ends with.
CardOutcomes == {"card", "error"}

\* connections and cards map a card name to the object stored under it, an
\* object being named by the callback that created it (0: no entry).
\* at[c] is the index of the address callback c is resolving; resolved counts
\* the get_agent_card calls made per address.
InitIdle ==
    [initialized |-> FALSE,
     connections |-> [a \in 1..MaxAddresses |-> 0],
     cards |-> [a \in 1..MaxAddresses |-> 0],
     pc |-> [c \in Callbacks |-> "idle"],
     at |-> [c \in Callbacks |-> 0],
     resolved |-> [a \in 1..MaxAddresses |-> 0]]

\* _init_connections up to its first await: return when the flag is set,
\* otherwise enter the loop and call get_agent_card for the first address.
init_connections(st, c) ==
    IF st.initialized
    THEN [st EXCEPT !.pc[c] = "returned"]
    ELSE [st EXCEPT !.pc[c] = "await", !.at[c] = 1,
                    !.resolved[Addresses[1]] = @ + 1]

init_connections_call(c) ==
    /\ ini.pc[c] = "idle"
    /\ ini' = init_connections(ini, c)
    /\ UNCHANGED notInit

\* The await of callback c ends: with an exception, which ends the callback,
\* or with the card, which is stored in both maps; then the next address is
\* resolved or, after the last one, the flag is set.
init_connections_resume(c, out) ==
    /\ ini.pc[c] = "await"
    /\ LET i == ini.at[c]
           name == Addresses[i]
           stored == [ini EXCEPT !.connections[name] = c, !.cards[name] = c]
       IN  IF out = "error"
           THEN ini' = [ini EXCEPT !.pc[c] = "raised"]
           ELSE IF i < MaxAddresses
           THEN ini' = [stored EXCEPT !.at[c] = i + 1,
                                      !.resolved[Addresses[i + 1]] = @ + 1]
           ELSE ini' = [stored EXCEPT !.initialized = TRUE,
                                      !.pc[c] = "returned"]
    /\ UNCHANGED notInit

InitConnNext ==
    \/ \E c \in Callbacks : init_connections_call(c)
    \/ \E c \in Callbacks, out \in CardOutcomes : init_connections_resume(c, out)

\* ============================================================ specifications
StoreInit ==
    /\ tasks = <<>>
    /\ chunks = [aid \in ArtifactIds |-> <<>>]
    /\ nEvents = 0
    /\ last = NoEvent
    /\ pat = Idle
    /\ started = {}
    /\ finalized = {}
    /\ repeated = FALSE
    /\ ret = NoRecord
    /\ hist = <<>>

Init ==
    /\ StoreInit /\ GateInit /\ enr = EnIdle /\ loop = LoopIdle /\ cl = ClientIdle
    /\ ini = InitIdle

Next ==
    \/ \E e \in StatusEvents : update_task_status(e)
    \/ \E e \in ArtifactEvents : update_task_artifact(e)
    \/ \E e \in RawTaskEvents : update_task_raw(e)

Spec == Init /\ [][Next]_vars

GateSpec == Init /\ [][GateNext]_vars

\* The arguments of the call and the answer of fee_quote are drawn here.
EnrichInit ==
    /\ StoreInit /\ GateInit
    /\ enr \in [accepts : SeqsUpTo(EnRequirements, MaxAccepts),
                out : EnQuoteOutcomes, result : {EnNotRun}]
    /\ loop = LoopIdle /\ cl = ClientIdle /\ ini = InitIdle

EnrichSpec == EnrichInit /\ [][EnrichNext]_vars

LoopSpec == Init /\ [][LoopNext]_vars

ClientSpec == Init /\ [][ClientNext]_vars

InitConnSpec == Init /\ [][InitConnNext]_vars

ChunkSpec == Init /\ [][ChunkNext]_vars

\* ================================================================ TaskStore
IsPrefix(s, t) == Len(s) <= Len(t) /\ SubSeq(t, 1, Len(s)) = s

IndicesOf(arts, aid) == {i \in 1..Len(arts) : arts[i].artifactId = aid}

\* C1: after an uninterrupted sequence start(x, append=false, lastChunk=false),
\* zero or more non-final appends for x and a final append (lastChunk=true),
\* all for one task, the task's artifacts are the ones it had before followed
\* by one artifact x whose parts are the fragments' parts in arrival order
\* (so exactly one artifact x when there was none before).
C1_ChunkConcat ==
    pat.kind = "done" =>
        /\ Stored(pat.t)
        /\ LET arts == tasks[pat.t].artifacts
               k    == Len(arts)
           IN  /\ k = Len(pat.base) + 1
               /\ SubSeq(arts, 1, k - 1) = pat.base
               /\ arts[k].artifactId = pat.x
               /\ arts[k].parts = pat.acc
               /\ (IndicesOf(pat.base, pat.x) = {}
                     => Cardinality(IndicesOf(arts, pat.x)) = 1)

\* C1 witness: a sequence of a start, a non-final append and a final append
\* has been applied.
C1_Witness == pat.kind = "done" /\ pat.n >= 3 /\ Len(pat.acc) >= 3

\* C2: no partially assembled artifact is visible: an artifact object that a
\* start event (append=false, lastChunk=false) put in the buffer is in no
\* task's artifacts until a final append (append=true, lastChunk=true) has
\* been applied to it, and a buffered object is never in a task's artifacts.
C2_NoPartialVisible ==
    \A tid \in DOMAIN tasks :
        \A i \in 1..Len(tasks[tid].artifacts) :
            LET oid == tasks[tid].artifacts[i].oid
            IN  /\ oid \in started => oid \in finalized
                /\ \A aid \in ArtifactIds : \A j \in 1..Len(chunks[aid]) :
                       chunks[aid][j].oid # oid

\* C2 witness: a started fragment has received a non-final append and is
\* still buffered, while its task is stored.
C2_Witness ==
    \E aid \in ArtifactIds :
        /\ chunks[aid] # <<>>
        /\ Len(chunks[aid][1].parts) >= 2
        /\ chunks[aid][1].oid \in started \ finalized
        /\ last.kind = "artifact" /\ Stored(last.task_id)

\* C3 (as claimed): once a task is completed or failed, no update_task call
\* changes its status.state.
C3_TerminalIsFinal ==
    [][\A tid \in DOMAIN tasks :
          tasks[tid].status \in Terminal => tasks'[tid].status = tasks[tid].status]_vars

\* C4 (as claimed): every change of a stored task's status.state follows an
\* edge of submitted -> working -> input_required -> working -> completed|failed.
Edges ==
    {<<"submitted", "working">>, <<"working", "input_required">>,
     <<"input_required", "working">>, <<"working", "completed">>,
     <<"working", "failed">>}

C4_ForwardOnly ==
    [][\A tid \in DOMAIN tasks :
          tasks'[tid].status # tasks[tid].status
              => <<tasks[tid].status, tasks'[tid].status>> \in Edges]_vars

\* C5 (as claimed): after every update_task call the artifacts stored for an
\* id have the artifacts stored before as a prefix.
C5_AppendOnlyAllEvents ==
    [][\A tid \in DOMAIN tasks :
          IsPrefix(tasks[tid].artifacts, tasks'[tid].artifacts)]_vars

\* C5 (amended): after every update_task call with a status event or an
\* artifact event the artifacts stored for an id have the artifacts stored
\* before as a prefix (a raw Task replaces the stored record).
C5_AppendOnlyEvents ==
    [][last'.kind \in {"status", "artifact"} =>
          \A tid \in DOMAIN tasks :
              IsPrefix(tasks[tid].artifacts, tasks'[tid].artifacts)]_vars

\* C5 witness: an artifact event has extended a non-empty artifacts list.
C5_Witness ==
    /\ last.kind = "artifact"
    /\ \E tid \in DOMAIN tasks :
          /\ Len(tasks[tid].artifacts) >= 2
          /\ tasks[tid].artifacts[Len(tasks[tid].artifacts)].oid = nEvents

\* ============================================================ payment gate
Ops(op) == {i \in 1..Len(gtrace) : gtrace[i].op = op}

Positive(r) == ~r.raised /\ r.ok

\* C6: settle_payment is called for a payload only right after verify_payment
\* returned isValid=true for the same payload and requirements; when
\* verify_payment returns isValid=false the task goes to failed with the
\* invalidReason and settle_payment is not called for that request.
C6_SettleOnlyAfterValidVerify ==
    /\ \A i \in Ops("settle") :
          /\ i > 1
          /\ gtrace[i - 1].op = "verify"
          /\ Positive(gtrace[i - 1].ret)
          /\ gtrace[i - 1].payload = gtrace[i].payload
          /\ gtrace[i - 1].requirements = gtrace[i].requirements
          /\ gtrace[i - 1].req = gtrace[i].req
    /\ \A i \in Ops("verify") :
          (~gtrace[i].ret.raised /\ ~gtrace[i].ret.ok) =>
              /\ i < Len(gtrace)
              /\ gtrace[i + 1].op = "status"
              /\ gtrace[i + 1].state = "failed"
              /\ gtrace[i + 1].message = gtrace[i].ret.reason
              /\ \A j \in Ops("settle") : gtrace[j].req # gtrace[i].req

\* C6 witness: one payment was verified and settled, another was found
\* invalid and the task is failed.
C6_Witness ==
    /\ Ops("settle") # {}
    /\ \E i \in Ops("verify") : ~gtrace[i].ret.raised /\ ~gtrace[i].ret.ok
    /\ stask.state = "failed"

\* C7: the business executor takes the payment-verified branch only after a
\* verify_payment that returned isValid=true and a settle_payment that returned
\* success=true for the task's payload; when verification or settlement fails
\* the task ends failed with the reason and the business executor is not run
\* for that request.
FailedCall(i) ==
    /\ gtrace[i].op \in {"verify", "settle"}
    /\ ~Positive(gtrace[i].ret)

C7_VerifiedOnlyAfterSettle ==
    /\ \A i \in Ops("delegate") :
          gtrace[i].flag =>
              \E j \in Ops("verify"), k \in Ops("settle") :
                  /\ j < k /\ k < i
                  /\ gtrace[j].req = gtrace[k].req
                  /\ gtrace[j].payload = gtrace[k].payload
                  /\ Positive(gtrace[j].ret)
                  /\ Positive(gtrace[k].ret)
    /\ \A i \in 1..Len(gtrace) :
          FailedCall(i) =>
              /\ i < Len(gtrace)
              /\ gtrace[i + 1].op = "status"
              /\ gtrace[i + 1].state = "failed"
              /\ gtrace[i + 1].message =
                    (IF gtrace[i].ret.raised THEN gtrace[i].ret.exc
                     ELSE gtrace[i].ret.reason)
              /\ \A j \in Ops("delegate") : gtrace[j].req # gtrace[i].req

\* C7 witness: a settled payment was followed by a run of the business
\* executor on the verified branch, and a later settlement failed.
C7_Witness ==
    /\ \E i \in Ops("delegate") : gtrace[i].flag /\ gtrace[i - 1].op = "settle"
    /\ \E k \in Ops("settle") : ~gtrace[k].ret.raised /\ ~gtrace[k].ret.ok
    /\ stask.state = "failed"

\* C8 (as claimed): after a successful settlement the business executor runs
\* once on the verified branch, a final response completes the task, and no
\* later run of ADKAgentExecutor.execute for the task sees the verified flag
\* unless another payment was settled in between.
C8_VerifiedFlagOnce ==
    /\ \A k \in Ops("settle") :
          Positive(gtrace[k].ret) =>
              /\ k < Len(gtrace)
              /\ gtrace[k + 1].op = "delegate"
              /\ gtrace[k + 1].flag /\ gtrace[k + 1].injected
              /\ Cardinality({i \in Ops("delegate") :
                                 gtrace[i].req = gtrace[k].req}) = 1
              /\ gtrace[k + 1].result = "final" =>
                    /\ gtrace[k + 2].op = "status"
                    /\ gtrace[k + 2].state = "completed"
    /\ \A i \in Ops("delegate"), j \in Ops("delegate") :
          (/\ i < j
           /\ gtrace[i].flag
           /\ \A k \in Ops("settle") : ~(i < k /\ k < j /\ Positive(gtrace[k].ret)))
              => ~gtrace[j].flag

\* C9: verify_payment returns is_valid=true only when the facilitator's verify
\* call returned is_valid=true, settle_payment returns success=true only when
\* the facilitator's settle call returned success=true, and a facilitator call
\* that fails or times out yields no response at all (the failure propagates).
C9_NoAssumeValid ==
    \A i \in Ops("verify") \cup Ops("settle") :
        /\ Positive(gtrace[i].ret) => Positive(gtrace[i].fac)
        /\ gtrace[i].fac.raised =>
              gtrace[i].ret.raised /\ gtrace[i].ret.exc = gtrace[i].fac.exc

\* C9 witness: after a positive verify answer the facilitator's settle call
\* timed out, settle_payment returned nothing and the task is failed.
C9_Witness ==
    /\ \E i \in Ops("verify") : Positive(gtrace[i].fac) /\ Positive(gtrace[i].ret)
    /\ \E i \in Ops("settle") :
          /\ gtrace[i].fac.raised /\ gtrace[i].fac.exc = "timeout"
          /\ gtrace[i].ret.raised
    /\ stask.state = "failed"

\* C10: when the fee-quote call fails (error or timeout) _enrich_accepts
\* raises nothing and returns the requirements it was given, and the task
\* goes to input_required carrying those requirements.
C10_FeeQuoteFailOpen ==
    \A i \in Ops("fee_quote") :
        gtrace[i].fac.raised =>
            /\ ~gtrace[i].ret.raised
            /\ gtrace[i].ret.accepts = gtrace[i].accepts
            /\ i < Len(gtrace)
            /\ gtrace[i + 1].op = "status"
            /\ gtrace[i + 1].state = "input_required"
            /\ gtrace[i + 1].reqs = gtrace[i].accepts

\* C10 witness: the fee quote timed out and the task is input_required with
\* the merchant's requirements, no fee in them.
C10_Witness ==
    /\ \E i \in Ops("fee_quote") : gtrace[i].fac.raised /\ gtrace[i].fac.exc = "timeout"
    /\ stask.state = "input_required"
    /\ stask.reqs = MerchantAccepts
    /\ gtrace[Len(gtrace) - 1].op = "fee_quote"
    /\ gtrace[Len(gtrace) - 1].fac.raised

\* ========================================================= _enrich_accepts
QuotesFor(req) ==
    {j \in 1..Len(enr.out.quotes) :
        /\ enr.out.quotes[j].network = req.network
        /\ enr.out.quotes[j].scheme = req.scheme
        /\ enr.out.quotes[j].asset = req.asset}

LastOf(S) == CHOOSE j \in S : \A k \in S : k <= j

\* C11: for every list of options and every list of quotes the facilitator
\* returns, _enrich_accepts returns a list of the same length and order in
\* which option i carries in extra.fee the fee quoted for its (network,
\* scheme, asset) key (the last such quote) exactly when a quote for the key
\* exists, and is the input option otherwise.
C11_EnrichPerOption ==
    (enr.result.done /\ ~enr.out.raised) =>
        /\ ~enr.result.raised
        /\ Len(enr.result.accepts) = Len(enr.accepts)
        /\ \A i \in 1..Len(enr.accepts) :
              LET req == enr.accepts[i]
                  res == enr.result.accepts[i]
                  hits == QuotesFor(req)
              IN  /\ Key(res) = Key(req)
                  /\ res.amount = req.amount /\ res.payTo = req.payTo
                  /\ IF hits = {}
                     THEN res = req
                     ELSE res.extra.fee = enr.out.quotes[LastOf(hits)].fee

\* C11 witness: of two options the first has a key quoted twice with
\* different fees and the second has no quote.
C11_Witness ==
    /\ enr.result.done /\ ~enr.out.raised
    /\ Len(enr.accepts) = 2
    /\ Cardinality(QuotesFor(enr.accepts[1])) = 2
    /\ enr.out.quotes[1].fee # enr.out.quotes[2].fee
    /\ QuotesFor(enr.accepts[2]) = {}
    /\ enr.accepts[2].extra.fee # NoFee

\* ============================================================== tool loop
Ran(b) == {b.executed[k] : k \in 1..Len(b.executed)}

\* C12: when a tool run by _exec_tools raises the payment-needed signal, the
\* signal leaves _exec_tools and _run_to_completion, no later call of the
\* batch is executed, no result of the batch is given to the engine, and the
\* loop emits no completion.
C12_PaymentSignalSuspends ==
    \A n \in 1..Len(loop.batches) :
        LET b == loop.batches[n]
        IN  \A i \in Ran(b) :
                b.calls[i] = "pay" =>
                    /\ b.exc = "x402PaymentRequiredException"
                    /\ loop.pc = "raised"
                    /\ loop.exc = "x402PaymentRequiredException"
                    /\ \A j \in Ran(b) : j <= i
                    /\ n = Len(loop.batches)
                    /\ Len(loop.runs) = b.round
                    /\ \A k \in 1..Len(loop.emitted) : loop.emitted[k] # "completed"

\* C12 witness: in the second round a batch whose first call asks for
\* payment and whose second call would have succeeded.
C12_Witness ==
    /\ loop.pc = "raised"
    /\ Len(loop.batches) = 2
    /\ loop.batches[2].calls = <<"pay", "ok">>
    /\ loop.batches[2].executed = <<1>>

C14_OnlyPaymentSignalEscapes ==
    \A n \in 1..Len(loop.batches) :
        loop.batches[n].exc \in {"None", "x402PaymentRequiredException"}

\* C15: cancel is rejected with an unsupported-operation error whatever the
\* loop is doing, emits nothing and changes no task or session state.
C15_CancelRejected ==
    [][loop'.cancelExc # loop.cancelExc =>
          /\ loop'.cancelExc = "UnsupportedOperationError"
          /\ loop' = [loop EXCEPT !.cancelExc = "UnsupportedOperationError"]
          /\ UNCHANGED <<stask, sess>>]_vars

\* C15 witness: cancel was called in the middle of a round, after a working
\* update, and the loop is still in that round.
C15_Witness ==
    /\ loop.cancelExc = "UnsupportedOperationError"
    /\ loop.pc = "stream"
    /\ loop.emitted = <<"working">>
    /\ loop.calls # <<>>

\* ============================================================== requester
\* C16: send_message("sign_and_send_payment") with no purchase_task in the
\* state, or with a recorded task that carries no payment requirements, raises
\* an error, asks the wallet for no signature, sends no message and leaves the
\* requester state as it was.
C16_ResumeWithoutChallenge ==
    [][(/\ cl'.nCalls # cl.nCalls
        /\ cl'.call.message = "sign_and_send_payment"
        /\ (~cl.purchase_task.has \/ cl.purchase_task.reqs = "none"))
       => /\ cl'.result.kind = "raise"
          /\ cl'.signed = cl.signed
          /\ cl'.sent = cl.sent
          /\ cl'.purchase_task = cl.purchase_task
          /\ cl'.context_id = cl.context_id]_vars

\* C16 witness: a purchase ended in input_required without requirements, and
\* the resume that followed was rejected.
C16_Witness ==
    /\ cl.call = [agent |-> "merchant", message |-> "sign_and_send_payment"]
    /\ cl.result = Raises("ValueError: No payment requirements found.")
    /\ cl.purchase_task.has
    /\ Len(cl.sent) = 1

\* =============================================================== TaskStore
\* C18 (as stated): applying the same status event twice in a row leaves the
\* store as one application left it.
C18_StatusTwiceIsOnce ==
    [][(nEvents' = nEvents + 1 /\ last.kind = "status" /\ last' = last)
          => (tasks' = tasks /\ chunks' = chunks)]_vars

\* C18 (amended): applying twice in a row the same status event that carries
\* a task id leaves the store as one application left it: the second
\* application changes no task and no pending chunk.
C18_StatusWithIdTwiceIsOnce ==
    [][(/\ nEvents' = nEvents + 1
        /\ last.kind = "status" /\ last' = last
        /\ last.task_id # NoId)
          => (tasks' = tasks /\ chunks' = chunks)]_vars

\* C18 witness: a completed status was applied twice in a row to a task that
\* holds an artifact while a fragment is pending.
C18_Witness ==
    /\ repeated
    /\ last.kind = "status" /\ last.task_id = "t1" /\ last.status = "completed"
    /\ tasks["t1"].status = "completed"
    /\ \E aid \in ArtifactIds : chunks[aid] # <<>>

\* C19: an artifact event with append=true for an artifactId without a
\* buffered fragment changes the artifacts of no task and leaves the chunk
\* buffer as it was, with lastChunk true or not.
C19_AppendWithoutStartIsNoOp ==
    [][(/\ nEvents' = nEvents + 1
        /\ last'.kind = "artifact" /\ last'.append
        /\ chunks[last'.artifactId] = <<>>)
          => /\ chunks' = chunks
             /\ \A tid \in DOMAIN tasks' :
                   tasks'[tid].artifacts =
                       IF Stored(tid) THEN tasks[tid].artifacts ELSE <<>>]_vars

\* C19 witness: a final continuation arrived for an artifactId that never had
\* a fragment finalized and has none buffered, for a task that holds an
\* artifact.
C19_Witness ==
    /\ last.kind = "artifact" /\ last.append /\ last.last_chunk = "True"
    /\ last.task_id \in TaskIds
    /\ chunks[last.artifactId] = <<>>
    /\ finalized = {}
    /\ tasks[last.task_id].artifacts # <<>>

\* ============================================================ payment gate
\* C20: a task enters input_required only in a request in which the wrapped
\* executor raised the payment-needed signal (the tool loop itself emits only
\* working and completed), and leaves input_required only in a request that
\* carries a signed payload, that is, one in which verify_payment was called.
C20_InputRequiredEntryAndExit ==
    [][LET new == {i \in 1..Len(gtrace') : i > Len(gtrace)}
       IN  /\ (stask.state # "input_required" /\ stask'.state = "input_required")
                 => \E i \in new : /\ gtrace'[i].op = "delegate"
                                   /\ gtrace'[i].result = "payment_needed"
           /\ (stask.state = "input_required" /\ stask'.state # "input_required")
                 => \E i \in new : gtrace'[i].op = "verify"]_vars

\* ============================================================== tool loop
\* C21: while a round has collected no function call, the engine is not given
\* new content; when such a round is left, by a final response or by the end
\* of the stream, the loop returns with a completion as its last update and
\* without a further invocation of the engine; a loop that returned emits
\* nothing more and invokes the engine no more.
C21_EmptyRoundCompletes ==
    [][/\ (loop.pc = "stream" /\ loop.calls = <<>> /\ loop'.pc # "stream")
            => /\ loop'.pc = "done"
               /\ loop'.emitted # <<>>
               /\ loop'.emitted[Len(loop'.emitted)] = "completed"
               /\ loop'.runs = loop.runs /\ loop'.round = loop.round
       /\ (loop.pc = "stream" /\ loop.calls = <<>> /\ loop'.pc = "stream")
            => (loop'.runs = loop.runs /\ loop'.round = loop.round)
       /\ loop.pc = "done"
            => (loop'.pc = "done" /\ loop'.runs = loop.runs
                /\ loop'.emitted = loop.emitted)]_vars

\* C21 witness: after a round of tools the second round ended without calls
\* and without a final response, and the loop completed the task.
C21_Witness ==
    /\ loop.pc = "done" /\ loop.end = "exhausted"
    /\ loop.round = 2 /\ Len(loop.runs) = 2
    /\ loop.emitted = <<"completed">>

\* ========================================================== chunk protocol
\* The artifacts of all tasks, the stamps of the events whose parts an
\* artifact holds, and the stamp of the last of them.
AllArtifacts ==
    UNION {{tasks[tid].artifacts[i] : i \in 1..Len(tasks[tid].artifacts)} :
              tid \in DOMAIN tasks}

Stamps(a) == [i \in 1..Len(a.parts) |-> a.parts[i][2]]

FinalStamp(a) == a.parts[Len(a.parts)][2]

IsStart(e, aid) == e.artifactId = aid /\ ~e.append /\ e.last_chunk = "False"

\* C22: in every reachable state the buffer holds at most one in-progress
\* artifact per artifactId.
C22_OneOpenPerArtifactId ==
    \A aid \in ArtifactIds : Len(chunks[aid]) <= 1

\* A fragment is superseded when a later start for the same artifactId
\* arrived before it was finalized.
Superseded(o1) ==
    \E o2 \in started :
        /\ o2 > o1
        /\ hist[o2].artifactId = hist[o1].artifactId
        /\ ~\E a \in AllArtifacts : a.oid = o1 /\ FinalStamp(a) < o2

\* C23: after a second start for an artifactId whose sequence is still open,
\* no part of the superseded first fragment is in any task's artifacts, and an
\* artifact assembled from a start fragment holds that start's parts followed
\* by parts that arrived later.
C23_SecondStartWins ==
    /\ \A o1 \in started :
          Superseded(o1) =>
              \A a \in AllArtifacts : \A i \in 1..Len(a.parts) :
                  a.parts[i][2] # o1
    /\ \A a \in AllArtifacts :
          a.oid \in started =>
              /\ a.parts[1][2] = a.oid
              /\ \A i \in 2..Len(a.parts) : a.parts[i][2] > a.oid

\* C24: an artifact assembled from a chunk sequence holds parts of events of
\* its own artifactId only, in arrival order, beginning with its start; when
\* no second start for its artifactId arrived before it was finalized, its
\* parts are exactly those of its start and of every continuation for its
\* artifactId up to the final one, whatever events of another artifactId
\* arrived in between.
C24_IndependentAssembly ==
    \A a \in AllArtifacts :
        a.oid \in finalized =>
            LET st == Stamps(a)
                kf == FinalStamp(a)
            IN  /\ st[1] = a.oid
                /\ \A i \in 1..Len(st) : hist[st[i]].artifactId = a.artifactId
                /\ \A i, j \in 1..Len(st) : i < j => st[i] < st[j]
                /\ (\A k \in (a.oid + 1)..(kf - 1) : ~IsStart(hist[k], a.artifactId))
                      => {st[i] : i \in 1..Len(st)} =
                         {a.oid} \cup
                         {k \in (a.oid + 1)..kf :
                             hist[k].artifactId = a.artifactId /\ hist[k].append}

\* C24 witness: one task holds two assembled artifacts of different
\* artifactIds whose sequences were open at the same time.
C24_Witness ==
    \E tid \in DOMAIN tasks :
        /\ Len(tasks[tid].artifacts) = 2
        /\ LET a == tasks[tid].artifacts[1]
               b == tasks[tid].artifacts[2]
           IN  /\ a.oid \in finalized /\ b.oid \in finalized
               /\ a.artifactId # b.artifactId
               /\ a.oid < b.oid /\ b.oid < FinalStamp(a)
               /\ \A k \in 1..Len(hist) : hist[k].task_id = tid

\* C25: an artifact in a task's artifacts is no buffer entry; once an
\* artifact of an artifactId has been finalized and no start for that id
\* arrived since, an append=true event for the id changes neither the buffer
\* nor any task's artifacts; and the artifacts a task holds never change.
C25_FinalizedIsRemoved ==
    [][/\ \A a \in AllArtifacts : \A aid \in ArtifactIds :
             \A j \in 1..Len(chunks[aid]) : chunks[aid][j].oid # a.oid
       /\ \A tid \in DOMAIN tasks : IsPrefix(tasks[tid].artifacts, tasks'[tid].artifacts)
       /\ LET e == last'
              done == {a \in AllArtifacts :
                          a.oid \in finalized /\ a.artifactId = e.artifactId}
          IN  (/\ e.append
               /\ done # {}
               /\ \E a \in done :
                     \A k \in (FinalStamp(a) + 1)..Len(hist) :
                         ~IsStart(hist[k], e.artifactId))
                 => /\ chunks' = chunks
                    /\ \A tid \in DOMAIN tasks :
                          tasks'[tid].artifacts = tasks[tid].artifacts]_vars

\* C27: an event for one task id leaves the record of every other task id as
\* it was, and every part in an artifact of a task was delivered by an event
\* for that task.
C27_TasksAreIsolated ==
    [][/\ \A tid \in DOMAIN tasks :
             tid # last'.task_id => tasks'[tid] = tasks[tid]
       /\ \A tid \in DOMAIN tasks' :
             \A i \in 1..Len(tasks'[tid].artifacts) :
                 \A j \in 1..Len(tasks'[tid].artifacts[i].parts) :
                     hist'[tasks'[tid].artifacts[i].parts[j][2]].task_id = tid]_vars

\* =============================================================== TaskStore
\* C26: an artifact event with append=false and lastChunk true or unset puts
\* the artifact at the end of the task's artifacts and leaves the chunk
\* buffer as it was; with lastChunk false it puts the fragment in the buffer of
\* its artifactId and leaves the task's artifacts as they were.
C26_NonAppendEffects ==
    [][(nEvents' = nEvents + 1 /\ last'.kind = "artifact" /\ ~last'.append) =>
          LET tid    == ret'.id
              before == IF Stored(tid) THEN tasks[tid].artifacts ELSE <<>>
              after  == tasks'[tid].artifacts
              aid    == last'.artifactId
          IN  IF last'.last_chunk \in {"True", "None"}
              THEN /\ Len(after) = Len(before) + 1
                   /\ SubSeq(after, 1, Len(before)) = before
                   /\ after[Len(after)].artifactId = aid
                   /\ after[Len(after)].oid = nEvents'
                   /\ chunks' = chunks
              ELSE /\ after = before
                   /\ Len(chunks'[aid]) = Len(chunks[aid]) + 1
                   /\ chunks'[aid][Len(chunks'[aid])].oid = nEvents'
                   /\ SubSeq(chunks'[aid], 1, Len(chunks[aid])) = chunks[aid]
                   /\ \A x \in ArtifactIds \ {aid} : chunks'[x] = chunks[x]]_vars

\* C26 witness: a complete artifact was appended behind another one while a
\* fragment is buffered.
C26_Witness ==
    /\ last.kind = "artifact" /\ ~last.append /\ last.last_chunk = "None"
    /\ last.task_id \in TaskIds
    /\ Len(tasks[last.task_id].artifacts) = 2
    /\ tasks[last.task_id].artifacts[2].oid = nEvents
    /\ \E aid \in ArtifactIds : chunks[aid] # <<>>

\* C28: a status or artifact event for an unseen task id creates one record
\* under that id, in state submitted with no artifacts before the event's own
\* effect; an event for a stored id creates none and returns the record of
\* that id; every record is stored under its own id and no record disappears.
C28_OneRecordPerId ==
    [][nEvents' = nEvents + 1 =>
          /\ \A tid \in DOMAIN tasks' : tasks'[tid].id = tid
          /\ DOMAIN tasks \subseteq DOMAIN tasks'
          /\ (last'.kind \in {"status", "artifact"} /\ last'.task_id # NoId) =>
                LET tid == last'.task_id
                IN  /\ ret' = tasks'[tid]
                    /\ DOMAIN tasks' = DOMAIN tasks \cup {tid}
                    /\ ~Stored(tid) =>
                          /\ tasks'[tid].contextId = last'.context_id
                          /\ IF last'.kind = "status"
                             THEN /\ tasks'[tid].status = last'.status
                                  /\ tasks'[tid].artifacts = <<>>
                             ELSE /\ tasks'[tid].status = "submitted"
                                  /\ Len(tasks'[tid].artifacts) <= 1]_vars

\* C28 witness: a task created by an artifact event, still submitted, has
\* received a second artifact.
C28_Witness ==
    /\ DOMAIN tasks = {"t1"}
    /\ last.kind = "artifact" /\ last.task_id = "t1"
    /\ tasks["t1"].status = "submitted"
    /\ Len(tasks["t1"].artifacts) = 2
    /\ started = {}

\* C29: update_task with a raw Task stores under task.id a record with
\* exactly the status and artifacts of the given task, whatever was stored
\* there, leaves every other record and the chunk buffer as they were, and
\* returns the record.
C29_RawTaskInstalled ==
    [][(nEvents' = nEvents + 1 /\ last'.kind = "task") =>
          LET tid == last'.id
              rec == tasks'[tid]
          IN  /\ rec.id = tid
              /\ rec.status = last'.status
              /\ IF last'.artifactId = NoArtifact
                 THEN rec.artifacts = <<>>
                 ELSE /\ Len(rec.artifacts) = 1
                      /\ rec.artifacts[1].artifactId = last'.artifactId
                      /\ rec.artifacts[1].oid = nEvents'
              /\ ret' = rec
              /\ chunks' = chunks
              /\ \A other \in DOMAIN tasks \ {tid} : tasks'[other] = tasks[other]]_vars

\* C29 witness: the only task held an assembled artifact; a raw Task in
\* state completed without artifacts replaced the record.
C29_Witness ==
    /\ last.kind = "task" /\ last.artifactId = NoArtifact
    /\ last.status = "completed"
    /\ DOMAIN tasks = {last.id}
    /\ finalized # {}
    /\ tasks[last.id].artifacts = <<>>

\* ========================================================= _enrich_accepts
\* C30: the call leaves the list it was given as it was, and every option it
\* returns equals its input option in scheme, network, amount, asset, payTo,
\* maxTimeoutSeconds and in the name and version of extra: only extra.fee may
\* differ.
C30_EnrichOnlyFee ==
    [][/\ enr'.accepts = enr.accepts
       /\ enr'.result.done =>
             /\ Len(enr'.result.accepts) = Len(enr.accepts)
             /\ \A i \in 1..Len(enr.accepts) :
                   LET req == enr.accepts[i]
                       res == enr'.result.accepts[i]
                   IN  /\ res.scheme = req.scheme
                       /\ res.network = req.network
                       /\ res.amount = req.amount
                       /\ res.asset = req.asset
                       /\ res.payTo = req.payTo
                       /\ res.maxTimeoutSeconds = req.maxTimeoutSeconds
                       /\ res.extra.name = req.extra.name
                       /\ res.extra.version = req.extra.version
                       /\ res.extra.fee = req.extra.fee => res = req]_vars

\* C30 witness: an option whose extra had a name, a version and an older fee
\* came back with the quoted fee.
C30_Witness ==
    /\ enr.result.done /\ ~enr.out.raised
    /\ \E i \in 1..Len(enr.accepts) :
          /\ enr.accepts[i].extra.fee = "feeOld"
          /\ enr.accepts[i].extra.name = "USDT"
          /\ enr.result.accepts[i].extra.fee \in {"feeA", "feeB"}

\* ============================================================== tool loop
Count(seq, x) == Cardinality({i \in 1..Len(seq) : seq[i] = x})

\* C31: on a final response the loop adds one artifact when the response has
\* content, marks the task completed and returns; the task is marked
\* completed at most once in a run, and a loop that returned emits nothing,
\* executes no tool and invokes the engine no more.
C31_FinalResponseCompletes ==
    [][/\ (loop.pc = "stream" /\ loop'.end \in {"final_content", "final_empty"})
            => /\ loop'.pc = "done"
               /\ loop'.emitted = loop.emitted \o
                     (IF loop'.end = "final_content"
                      THEN <<"artifact", "completed">> ELSE <<"completed">>)
               /\ loop'.batches = loop.batches /\ loop'.runs = loop.runs
       /\ Count(loop'.emitted, "completed") <= 1
       /\ loop.pc = "done"
            => /\ loop'.pc = "done"
               /\ loop'.emitted = loop.emitted
               /\ loop'.batches = loop.batches
               /\ loop'.runs = loop.runs]_vars

\* C31 witness: after a working update and a round of tools the engine gave
\* a final response with content.
C31_Witness ==
    /\ loop.pc = "done" /\ loop.end = "final_content"
    /\ loop.emitted = <<"working", "artifact", "completed">>
    /\ Len(loop.batches) = 1

\* C32: every call of a batch in which no tool raises the payment-needed
\* signal is executed exactly once, in request order, before the engine is
\* invoked again, and the next round's input holds exactly one result per
\* requested call, in the same order.
C32_EveryCallExecutedOnce ==
    \A n \in 1..Len(loop.batches) :
        LET b == loop.batches[n]
        IN  (\A i \in 1..Len(b.calls) : b.calls[i] # "pay") =>
                /\ b.executed = [i \in 1..Len(b.calls) |-> i]
                /\ Len(b.results) = Len(b.calls)
                /\ \A i \in 1..Len(b.calls) : b.results[i].call = i
                /\ Len(loop.runs) > b.round
                /\ loop.runs[b.round + 1] = b.results

\* ============================================================ payment gate
\* C33: the marker payment_verified_data is consumed once: after every run
\* the session state no longer holds it, and an agent run receives the
\* injected check_payment_status result only when a payment was settled since
\* the last run that received one.
C33_MarkerConsumedOnce ==
    /\ ~sess.payment_verified_data
    /\ \A j \in Ops("delegate") :
          gtrace[j].injected =>
              \E k \in Ops("settle") :
                  /\ k < j
                  /\ Positive(gtrace[k].ret)
                  /\ \A i \in Ops("delegate") :
                        (k < i /\ i < j) => ~gtrace[i].injected

\* ============================================================== requester
\* C34: a signed payload goes out at most once per payment challenge: a call
\* of send_message signs or sends a payload only if a response in state
\* input_required was stored since the last payload was sent, and never for a
\* task that already came back completed or failed.
C34_OnePayloadPerChallenge ==
    [][(\/ Len(cl'.signed) > Len(cl.signed)
        \/ /\ Len(cl'.sent) > Len(cl.sent)
           /\ cl'.sent[Len(cl'.sent)].payload)
          => /\ cl.challenged
             /\ cl.purchase_task.id \notin cl.closed]_vars

\* C35: connection initialization happens at most once: however overlapping
\* _init_connections callbacks interleave, the agent card of each address is
\* resolved at most once, and once the flag _initialized is set no callback
\* changes connections or cards.
C35_InitializedOnce ==
    [][/\ \A a \in 1..MaxAddresses : ini'.resolved[Addresses[a]] <= 1
       /\ ini.initialized => /\ ini'.connections = ini.connections
                             /\ ini'.cards = ini.cards]_vars

====
